---- MODULE Spec2Model ----
(***************************************************************************)
(* Local-File-Organizer: the rule table (file_type_config.py), the AI      *)
(* categorization adapter (content_based_categorization.py) and the        *)
(* operation planner (main_ui_compatible.py).                              *)
(*                                                                         *)
(* Text is modelled as it is used: an extension is a string of a small     *)
(* universe with its lower-case image, a priority is an integer, a rule is *)
(* a record of the dataclass fields.  custom_processor is None everywhere  *)
(* in the program and is left out.  The field seq is a ghost: the rank of  *)
(* the rule object among those of the table by time of insertion.          *)
(***************************************************************************)
EXTENDS Integers, Sequences, FiniteSets, TLC

VARIABLES
  rules,        \* FileTypeManager._rules
  config,       \* the dict export_config returned, until import_config reads it
  pc,           \* the caller: "idle", "exported" (holding an exported dict),
                \* "updated" (back from update_rule), or "loop" (inside the
                \* for of process_files_with_ai)
  file_paths,   \* the batch being processed
  idx,          \* index in file_paths of the next file of the loop
  operations,   \* the list the loop appends to, and returns
  models,       \* the text_model and image_model arguments of the batch
  call,         \* a call under observation: its arguments and its result
  mpc,          \* the position of main: "start", "plan", "previewed", "done"
  args,         \* what parse_args returned
  ignored_folders,  \* the second list collect_file_paths returned
  tree,         \* the tree main built for its preview
  trace,        \* ghost: the previews shown and the calls of execute_operations
  fs,           \* the paths present on the file system
  performed     \* the operations execute_operations carried out

\* the state of a run of main
mainvars == <<mpc, args, ignored_folders, tree, trace, fs, performed>>

vars ==
  <<rules, config, pc, file_paths, idx, operations, models, call,
               mainvars>>

-----------------------------------------------------------------------------
(* Bounds *)

MaxRules == 4

MaxFiles == 2

-----------------------------------------------------------------------------
(* Extensions and str.lower *)

LowerExts == {".txt", ".png"}

Exts == {".txt", ".TXT", ".png", ".PNG"}

Lower(s) ==
  CASE s = ".TXT" -> ".txt"
    [] s = ".PNG" -> ".png"
    [] s = "True" -> "true"
    [] s = "TRUE" -> "true"
    [] OTHER -> s

\* every spelling of an extension that differs from it by letter case only
CaseVariants(e) == {v \in Exts : Lower(v) = Lower(e)}

-----------------------------------------------------------------------------
(* FileCategory and FileTypeRule *)

\* a member of the enumeration FileCategory, by its value
Enum(v) == [enum |-> TRUE, value |-> v]

\* a plain string where a FileCategory is expected (nothing validates it)
Raw(v) == [enum |-> FALSE, value |-> v]

PRIORITY_TEXT == 100

PRIORITY_IMAGE == 100

PRIORITY_DEFAULT == 0

FileTypeRule(exts, cat, desc, ai, model, prio) ==
  [extensions |-> exts, category |-> cat, description |-> desc,
   requires_ai_analysis |-> ai, ai_model_type |-> model, priority |-> prio,
   seq |-> 0]

\* the attributes hasattr finds on a rule
RuleFields ==
  {"extensions", "category", "description", "requires_ai_analysis",
   "ai_model_type", "priority"}

NoRule == [none |-> TRUE]

NoConfig == [none |-> TRUE]

-----------------------------------------------------------------------------
(* list.sort(key=priority, reverse=True): stable *)

Indices(s) == 1..Len(s)

MaxPriority(s) ==
  CHOOSE p \in {s[i].priority : i \in Indices(s)} :
    \A i \in Indices(s) : s[i].priority <= p

\* the first position holding the greatest priority
FirstMax(s) ==
  CHOOSE i \in Indices(s) :
    /\ s[i].priority = MaxPriority(s)
    /\ \A j \in 1..(i - 1) : s[j].priority # MaxPriority(s)

RemoveAt(s, i) == SubSeq(s, 1, i - 1) \o SubSeq(s, i + 1, Len(s))

RECURSIVE SortByPriority(_)
SortByPriority(s) ==
  IF s = <<>> THEN <<>>
  ELSE <<s[FirstMax(s)]>> \o SortByPriority(RemoveAt(s, FirstMax(s)))

-----------------------------------------------------------------------------
(* ghost: insertion ranks *)

Stamps(s) == {s[i].seq : i \in Indices(s)}

NextStamp(s) ==
  IF s = <<>> THEN 1
  ELSE 1 + (CHOOSE m \in Stamps(s) : \A n \in Stamps(s) : n <= m)

\* renumber the stamps 1..n, keeping their order
Restamp(s) ==
  [i \in Indices(s) |->
     [s[i] EXCEPT !.seq = Cardinality({n \in Stamps(s) : n <= s[i].seq})]]

-----------------------------------------------------------------------------
(* FileTypeManager *)

add_rule(s, rule) ==
  SortByPriority(Append(s, [rule EXCEPT !.seq = NextStamp(s)]))

Matches(rule, extensions) == \E ext \in extensions : ext \in rule.extensions

remove_rule(s, extensions) ==
  Restamp(SelectSeq(s, LAMBDA rule : ~Matches(rule, extensions)))

get_rule_for_extension(s, extension) ==
  LET e == Lower(extension)
      hits == {i \in Indices(s) : e \in s[i].extensions}
  IN IF hits = {} THEN NoRule
     ELSE s[CHOOSE i \in hits : \A j \in hits : i <= j]

\* setattr for every keyword that names an attribute
SetAttrs(rule, kwargs) ==
  [f \in DOMAIN rule |->
     IF f \in DOMAIN kwargs /\ f \in RuleFields THEN kwargs[f] ELSE rule[f]]

\* the loop of update_rule without its break
update_rule_every_match(s, extensions, kwargs) ==
  [i \in Indices(s) |->
     IF Matches(s[i], extensions) THEN SetAttrs(s[i], kwargs) ELSE s[i]]

update_rule(s, extensions, kwargs) ==
  LET hits == {i \in Indices(s) : Matches(s[i], extensions)}
  IN IF hits = {} THEN s
     ELSE LET first == CHOOSE i \in hits : \A j \in hits : i <= j
          IN [s EXCEPT ![first] = SetAttrs(s[first], kwargs)]

\* rule.category.value raises AttributeError on a plain string
ExportRaises(s) == \E i \in Indices(s) : ~s[i].category.enum

export_config(s) ==
  [rules |->
     [i \in Indices(s) |->
        [extensions |-> s[i].extensions,
         category |-> s[i].category.value,
         description |-> s[i].description,
         requires_ai_analysis |-> s[i].requires_ai_analysis,
         ai_model_type |-> s[i].ai_model_type,
         priority |-> s[i].priority]]]

RuleOfDict(d) ==
  FileTypeRule(d.extensions, Enum(d.category), d.description,
               d.requires_ai_analysis, d.ai_model_type, d.priority)

RECURSIVE AddAll(_, _)
AddAll(s, dicts) ==
  IF dicts = <<>> THEN s
  ELSE AddAll(add_rule(s, RuleOfDict(Head(dicts))), Tail(dicts))

import_config(cfg) == AddAll(<<>>, cfg.rules)

-----------------------------------------------------------------------------
(* The seed table, restricted to the modelled extensions *)

TextRule ==
  FileTypeRule({".txt"}, Enum("Documents"), "Text document", TRUE, "text",
               PRIORITY_TEXT)

ImageRule ==
  FileTypeRule({".png"}, Enum("Images"), "Image file", TRUE, "image",
               PRIORITY_IMAGE)

DefaultRules == SortByPriority(add_rule(add_rule(<<>>, TextRule), ImageRule))

-----------------------------------------------------------------------------
(* Inputs of the rule-table operations *)

UserRules ==
  {FileTypeRule({".txt"}, Enum("Code"), "Source text", FALSE, "None",
                PRIORITY_TEXT + 10),
   FileTypeRule({".txt", ".png"}, Enum("Data"), "Data file", FALSE, "None",
                PRIORITY_TEXT),
   FileTypeRule({".TXT"}, Enum("Archives"), "Upper-case rule", FALSE, "None",
                PRIORITY_DEFAULT)}

ExtensionLists == {{".txt"}, {".png"}, {".TXT"}}

PriorityUpdates ==
  {[priority |-> PRIORITY_TEXT - 10], [priority |-> PRIORITY_TEXT],
   [priority |-> PRIORITY_TEXT + 10]}

\* the keyword arguments of an update: one field, several fields, the
\* extension list itself, a name that is no attribute
Updates ==
  {[priority |-> PRIORITY_TEXT + 10],
   [priority |-> PRIORITY_DEFAULT, description |-> "Low"],
   [category |-> Enum("Code"), requires_ai_analysis |-> FALSE,
    ai_model_type |-> "None"],
   [extensions |-> {".TXT"}],
   [nosuch |-> TRUE, description |-> "Photo"]}

UpdateExtensionLists == ExtensionLists \cup {{".png", ".txt"}, {".md"}}

-----------------------------------------------------------------------------
(* Actions of the rule table *)

Idle == pc = "idle"

AddRule ==
  /\ Idle
  /\ Len(rules) < MaxRules
  /\ \E rule \in UserRules : rules' = add_rule(rules, rule)
  /\ UNCHANGED <<config, pc, file_paths, idx, operations, models, call,
               mainvars>>

RemoveRule ==
  /\ Idle
  /\ \E extensions \in ExtensionLists : rules' = remove_rule(rules, extensions)
  /\ UNCHANGED <<config, pc, file_paths, idx, operations, models, call,
               mainvars>>

UpdatePriority ==
  /\ Idle
  /\ \E extensions \in ExtensionLists, kwargs \in PriorityUpdates :
       rules' = update_rule(rules, extensions, kwargs)
  /\ UNCHANGED <<config, pc, file_paths, idx, operations, models, call,
               mainvars>>

\* one call of update_rule, observed: the table before it is kept beside the
\* arguments
UpdateRule ==
  /\ Idle
  /\ \E extensions \in UpdateExtensionLists, kwargs \in Updates :
       /\ rules' = update_rule(rules, extensions, kwargs)
       /\ call' = [fn |-> "update_rule",
                   args |-> [extensions |-> extensions, kwargs |-> kwargs],
                   before |-> rules]
  /\ pc' = "updated"
  /\ UNCHANGED <<config, file_paths, idx, operations, models,
               mainvars>>

\* import_config clears the table before it reads the dict, so the table it
\* leaves depends on the dict alone: whatever the caller does between the two
\* calls changes nothing, and the caller is modelled handing the dict straight
\* back.
ExportConfig ==
  /\ Idle
  /\ ~ExportRaises(rules)
  /\ config' = export_config(rules)
  /\ pc' = "exported"
  /\ UNCHANGED <<rules, file_paths, idx, operations, models, call,
               mainvars>>

ImportConfig ==
  /\ pc = "exported"
  /\ rules' = import_config(config)
  /\ config' = NoConfig
  /\ pc' = "idle"
  /\ UNCHANGED <<file_paths, idx, operations, models, call,
               mainvars>>

-----------------------------------------------------------------------------
(* Text: a Python str is a sequence of tokens.  A token is a field prefix of *)
(* the response format, a comma, a blank, a newline, or a word (a run of     *)
(* characters holding none of these).                                        *)

SP == " "

NL == "\n"

IsSpace(t) == t \in {SP, NL}

RECURSIVE LStrip(_)
LStrip(s) == IF s # <<>> /\ IsSpace(Head(s)) THEN LStrip(Tail(s)) ELSE s

RECURSIVE RStrip(_)
RStrip(s) ==
  IF s # <<>> /\ IsSpace(s[Len(s)]) THEN RStrip(SubSeq(s, 1, Len(s) - 1)) ELSE s

\* str.strip
Strip(s) == RStrip(LStrip(s))

\* str.split(sep): the segments between the occurrences of sep, empty ones kept
RECURSIVE Split(_, _)
Split(s, sep) ==
  IF \A i \in 1..Len(s) : s[i] # sep THEN <<s>>
  ELSE LET k == CHOOSE i \in 1..Len(s) :
                  s[i] = sep /\ \A j \in 1..(i - 1) : s[j] # sep
       IN <<SubSeq(s, 1, k - 1)>> \o Split(SubSeq(s, k + 1, Len(s)), sep)

\* str.replace(tok, '')
Replace(s, tok) == SelectSeq(s, LAMBDA t : t # tok)

\* str.startswith
StartsWith(s, tok) == s # <<>> /\ Head(s) = tok

\* tok in s
Contains(s, tok) == \E i \in 1..Len(s) : s[i] = tok

\* a value that is no str (a list, say): slicing it as text or strip raises
NotText == <<"<not a str>">>

IsText(x) == x # NotText

-----------------------------------------------------------------------------
(* float(): confidences are held in tenths *)

CONF_DEFAULT == 7

CONF_FAILED == 5

Floats == {"0.0", "0.5", "0.9", "1.5"}

FloatOf(t) ==
  CASE t = "0.0" -> 0
    [] t = "0.5" -> 5
    [] t = "0.9" -> 9
    [] t = "1.5" -> 15

\* float(s) raises ValueError unless s, blanks aside, is one number
FloatRaises(s) == ~(Len(Strip(s)) = 1 /\ Strip(s)[1] \in Floats)

-----------------------------------------------------------------------------
(* AICategorizer *)

Result(category, description, tags, confidence) ==
  [category |-> category, description |-> description, tags |-> tags,
   confidence |-> confidence]

\* the tags of a TAGS: line
TagsOf(tags_str) ==
  LET parts == Split(tags_str, ",")
      stripped == [i \in 1..Len(parts) |-> Strip(parts[i])]
  IN SelectSeq(stripped, LAMBDA tag : tag # <<>>)

\* one turn of the for loop of parse_ai_response
ParseLine(acc, raw) ==
  LET line == Strip(raw)
  IN IF StartsWith(line, "CATEGORY:")
       THEN [acc EXCEPT !.category = Strip(Replace(line, "CATEGORY:"))]
     ELSE IF StartsWith(line, "REASON:")
       THEN [acc EXCEPT !.description = Strip(Replace(line, "REASON:"))]
     ELSE IF StartsWith(line, "TAGS:")
       THEN [acc EXCEPT !.tags = TagsOf(Strip(Replace(line, "TAGS:")))]
     ELSE IF StartsWith(line, "CONFIDENCE:")
       THEN LET conf_str == Strip(Replace(line, "CONFIDENCE:"))
            IN [acc EXCEPT !.confidence =
                  IF FloatRaises(conf_str) THEN CONF_DEFAULT
                  ELSE FloatOf(conf_str[1])]
     ELSE acc

RECURSIVE ParseLines(_, _)
ParseLines(acc, lines) ==
  IF lines = <<>> THEN acc
  ELSE ParseLines(ParseLine(acc, Head(lines)), Tail(lines))

\* the result holds the reason in its description field
parse_ai_response(ai_response) ==
  IF ~IsText(ai_response)
    THEN Result(<<"Other">>,
                <<"AI analysis failed:", SP, "object has no attribute 'strip'">>,
                <<>>, CONF_FAILED)
  ELSE ParseLines(Result(<<"Other">>, <<"AI analysis provided">>, <<>>,
                         CONF_DEFAULT),
                  Split(Strip(ai_response), NL))

TorchMissingResponse ==
  <<NL, SP, "CATEGORY:", SP, "EXTENSION_BASED",
    NL, SP, "REASON:", SP, "Torch not available for AI analysis",
    NL, SP, "TAGS:", SP, "torch-missing", ",", SP, "ai-unavailable",
    NL, SP, "CONFIDENCE:", SP, "0.0", NL, SP>>

\* the template with str(e) after the last field line
FailureResponseMessageLast(message) ==
  <<NL, SP, "CATEGORY:", SP, "EXTENSION_BASED",
    NL, SP, "TAGS:", SP, "error", ",", SP, "ai-failed",
    NL, SP, "CONFIDENCE:", SP, "0.5",
    NL, SP, "REASON:", SP, "AI analysis failed due to technical error:", SP>>
  \o message \o <<NL, SP>>

\* the f-string of the except branch, str(e) put in as it is
FailureResponse(message) ==
  <<NL, SP, "CATEGORY:", SP, "EXTENSION_BASED",
    NL, SP, "REASON:", SP, "AI analysis failed due to technical error:", SP>>
  \o message \o
  <<NL, SP, "TAGS:", SP, "error", ",", SP, "ai-failed",
    NL, SP, "CONFIDENCE:", SP, "0.5", NL, SP>>

\* what encode, generate and decode do: raise, or hand back a response
Raise(message) == [raises |-> TRUE, value |-> message]

Return(response) == [raises |-> FALSE, value |-> response]

\* 'CATEGORY:' + response.split('CATEGORY:')[1]
FromCategory(response) == <<"CATEGORY:">> \o Split(response, "CATEGORY:")[2]

_get_ai_categorization(torch_available, inference) ==
  IF ~torch_available THEN TorchMissingResponse
  ELSE IF inference.raises THEN FailureResponse(inference.value)
  ELSE IF Contains(inference.value, "CATEGORY:")
    THEN FromCategory(inference.value)
  ELSE inference.value

\* content[:1000] raises TypeError when content is no str
PromptRaises(content) == ~IsText(content)

categorize_with_ai(content, ai_description, torch_available, inference) ==
  IF PromptRaises(content)
    THEN Result(<<"EXTENSION_BASED">>,
                ai_description
                  \o <<SP, "(AI categorization failed:", SP,
                       "object is not subscriptable", ")">>,
                <<>>, CONF_FAILED)
  ELSE LET parsed ==
             parse_ai_response(_get_ai_categorization(torch_available, inference))
       IN Result(parsed.category,
                 ai_description \o <<SP, "|", SP>> \o parsed.description,
                 parsed.tags, parsed.confidence)

categorize_by_content(content, ai_description, extension_category, torch_available, inference) ==
  LET r == categorize_with_ai(content, ai_description, torch_available, inference)
  IN IF r.category = <<"EXTENSION_BASED">>
       THEN Result(extension_category, r.description, r.tags, r.confidence)
     ELSE r

-----------------------------------------------------------------------------
(* Inputs of the categorization calls *)

MaxMsgLines == 2

MaxRespLines == 2

RECURSIVE JoinLines(_)
JoinLines(lines) ==
  IF Len(lines) = 1 THEN lines[1]
  ELSE lines[1] \o <<NL>> \o JoinLines(Tail(lines))

\* the texts of 1..n lines, each line of the pool
Texts(pool, n) ==
  {JoinLines(lines) : lines \in UNION {[1..k -> pool] : k \in 1..n}}

\* lines an exception message may hold
MsgLines ==
  {<<"'NoneType' object has no attribute 'encode'">>,
   <<"CUDA error: out of memory">>,
   <<"CATEGORY:", SP, "Other">>,
   <<SP, "REASON:", SP, "see the log">>,
   <<"TAGS:", SP, "oom">>,
   <<"CONFIDENCE:", SP, "0.9">>}

Messages == Texts(MsgLines, MaxMsgLines)

\* lines a decoded generation may hold
RespLines ==
  {<<"CATEGORY:", SP, "Documents/Technical">>,
   <<SP, "REASON:", SP, "budget report">>,
   <<"TAGS:", SP, "finance", ",", SP, ",", "q3">>,
   <<"CONFIDENCE:", SP, "0.9">>,
   <<"CONFIDENCE:", SP, "high">>,
   <<"CONFIDENCE:", SP, "1.5">>,
   <<"REASON:", SP, "see", SP, "REASON:", SP, "above">>,
   <<"quarterly budget figures">>}

Responses == Texts(RespLines, MaxRespLines) \cup {<<>>, NotText}

Inferences ==
  {Raise(m) : m \in Messages} \cup {Return(r) : r \in Responses}

Contents == {<<"quarterly budget figures">>, NotText}

Descriptions ==
  {<<"Document containing: quarterly budget figures">>,
   <<"a mountain landscape">>}

ExtensionCategories == {<<"Documents">>, <<"Images">>, <<"Other">>}

-----------------------------------------------------------------------------
(* Actions of the categorization adapter *)

NoCall == [none |-> TRUE]

\* the result of a call that has not run yet
Pending == [pending |-> TRUE]

ArgsWithAI ==
  [content : Contents, ai_description : Descriptions,
   torch_available : BOOLEAN, inference : Inferences]

ArgsByContent ==
  [content : Contents, ai_description : Descriptions,
   extension_category : ExtensionCategories,
   torch_available : BOOLEAN, inference : Inferences]

ArgsParse == [ai_response : Responses]

\* the calls a caller may make
Calls ==
  {[fn |-> "parse_ai_response", args |-> a, result |-> Pending] :
     a \in ArgsParse}
  \cup
  {[fn |-> "categorize_with_ai", args |-> a, result |-> Pending] :
     a \in ArgsWithAI}
  \cup
  {[fn |-> "categorize_by_content", args |-> a, result |-> Pending] :
     a \in ArgsByContent}

Calling(fn) == call # NoCall /\ call.fn = fn /\ call.result = Pending

ParseAIResponse ==
  /\ Calling("parse_ai_response")
  /\ call' = [call EXCEPT !.result = parse_ai_response(call.args.ai_response)]
  /\ UNCHANGED <<rules, config, pc, file_paths, idx, operations, models,
               mainvars>>

CategorizeWithAI ==
  /\ Calling("categorize_with_ai")
  /\ call' =
       [call EXCEPT !.result =
          categorize_with_ai(call.args.content, call.args.ai_description,
                             call.args.torch_available, call.args.inference)]
  /\ UNCHANGED <<rules, config, pc, file_paths, idx, operations, models,
               mainvars>>

CategorizeByContent ==
  /\ Calling("categorize_by_content")
  /\ call' =
       [call EXCEPT !.result =
          categorize_by_content(call.args.content, call.args.ai_description,
                                call.args.extension_category,
                                call.args.torch_available,
                                call.args.inference)]
  /\ UNCHANGED <<rules, config, pc, file_paths, idx, operations, models,
               mainvars>>

-----------------------------------------------------------------------------
(* main_ui_compatible: the description steps *)

\* what initialize_models hands over: a model with its tokenizer or processor,
\* or None
NoModels == [text |-> FALSE, image |-> FALSE]

\* words[:n]
Take(words, n) == SubSeq(words, 1, IF Len(words) < n THEN Len(words) ELSE n)

\* ' '.join(words)
RECURSIVE Join(_)
Join(words) ==
  IF words = <<>> THEN ""
  ELSE IF Len(words) = 1 THEN words[1]
  ELSE words[1] \o " " \o Join(Tail(words))

\* text_content.split() of the content of a file
Words(file) == file.words

analyze_text_with_ai(words, text_loaded, generation) ==
  IF ~text_loaded THEN "Document containing: " \o Join(Take(words, 20))
  ELSE IF generation.raises THEN "Document: " \o Join(Take(words, 15))
  ELSE generation.value

analyze_image_with_ai(file, image_loaded, generation) ==
  IF ~image_loaded THEN "Image file"
  ELSE IF ~file.readable \/ generation.raises THEN "Image file"
  ELSE generation.value

-----------------------------------------------------------------------------
(* process_files_with_ai *)

OUTPUT_PATH == "/out"

\* os.path.basename(file_path)
Basename(file) == file.stem \o file.ext

\* os.path.splitext(file_name)[1]
Extension(file) == file.ext

\* the category the table gives a file: that of the rule resolved for its
\* lower-cased extension, "Other" without a rule
CategoryOf(file) ==
  LET rule == get_rule_for_extension(rules, Lower(Extension(file)))
  IN IF rule = NoRule THEN "Other" ELSE rule.category.value

\* the path string of a file
PathOf(file) == <<file.dir, Basename(file)>>

\* the description the body of the loop settles on for a file under a rule
DescribeFile(rule, file, generation) ==
  IF ~rule.requires_ai_analysis THEN rule.description
  ELSE IF rule.ai_model_type = "text"
    THEN IF ~file.readable THEN rule.description
         ELSE analyze_text_with_ai(Words(file), models.text, generation)
  ELSE IF rule.ai_model_type = "image"
    THEN analyze_image_with_ai(file, models.image, generation)
  ELSE rule.description

\* a category taken from the description step when it names one
ClassifyFileByDescription(file, generation) ==
  LET rule == get_rule_for_extension(rules, Lower(Extension(file)))
  IN IF rule = NoRule
       THEN [raises |-> FALSE, category |-> "Other",
             description |-> "Other file"]
     ELSE IF ~rule.category.enum
       THEN [raises |-> TRUE]
     ELSE LET d == DescribeFile(rule, file, generation)
          IN [raises |-> FALSE,
              category |-> IF d = rule.description THEN rule.category.value
                           ELSE d,
              description |-> d]

\* lines 151-176: the category and the description of a file, or the
\* AttributeError of rule.category.value on a category that is a plain string
ClassifyFile(file, generation) ==
  LET rule == get_rule_for_extension(rules, Lower(Extension(file)))
  IN IF rule = NoRule
       THEN [raises |-> FALSE, category |-> "Other",
             description |-> "Other file"]
     ELSE IF ~rule.category.enum
       THEN [raises |-> TRUE]
     ELSE [raises |-> FALSE, category |-> rule.category.value,
           description |-> DescribeFile(rule, file, generation)]

\* the destination built without the category directory
OperationBelowRoot(file, category, description) ==
  [source |-> PathOf(file),
   destination |-> <<OUTPUT_PATH, Basename(file)>>,
   type |-> "move",
   description |-> description,
   category |-> category]

\* lines 178-188
Operation(file, category, description) ==
  [source |-> PathOf(file),
   destination |-> <<OUTPUT_PATH, category, Basename(file)>>,
   type |-> "move",
   description |-> description,
   category |-> category]

-----------------------------------------------------------------------------
(* Inputs of a batch *)

Content == <<"quarterly", "budget", "figures">>

File(dir, stem, ext, readable) ==
  [dir |-> dir, stem |-> stem, ext |-> ext, readable |-> readable,
   words |-> Content]

\* the files of the input directory: two of one name, an unreadable one, an
\* upper-case extension, an extension no rule holds
FilePool ==
  {File("/in/a", "x", ".txt", TRUE),
   File("/in/b", "x", ".txt", FALSE),
   File("/in/a", "p", ".PNG", TRUE),
   File("/in/b", "q", ".png", FALSE),
   File("/in/a", "n", ".xyz", TRUE)}

\* the lists of distinct files, MaxFiles at most
Batches ==
  {b \in UNION {[1..k -> FilePool] : k \in 1..MaxFiles} :
     \A i, j \in DOMAIN b : i # j => b[i] # b[j]}

\* what a generation does: it raises, or it returns a text
Generations ==
  {Raise("CUDA error: out of memory"), Return("a mountain landscape"),
   Return("Code")}

FieldUpdates ==
  {[description |-> "Photo"], [category |-> Raw("Pictures")],
   [requires_ai_analysis |-> FALSE]}

-----------------------------------------------------------------------------
(* Actions of the planner *)

UpdateFields ==
  /\ Idle
  /\ \E extensions \in {{".txt"}, {".png"}}, kwargs \in FieldUpdates :
       rules' = update_rule(rules, extensions, kwargs)
  /\ UNCHANGED <<config, pc, file_paths, idx, operations, models, call,
               mainvars>>

\* the call of process_files_with_ai, up to the for
StartBatch ==
  /\ Idle
  /\ \E batch \in Batches, text \in BOOLEAN, image \in BOOLEAN :
       /\ file_paths' = batch
       /\ models' = [text |-> text, image |-> image]
  /\ idx' = 1
  /\ operations' = <<>>
  /\ pc' = "loop"
  /\ UNCHANGED <<rules, config, call, mainvars>>

\* one turn of the for: the except of line 190 swallows what the body raises
ProcessFile ==
  /\ pc = "loop"
  /\ idx <= Len(file_paths)
  /\ \E generation \in Generations :
       LET c == ClassifyFile(file_paths[idx], generation)
       IN operations' =
            IF c.raises THEN operations
            ELSE Append(operations,
                        Operation(file_paths[idx], c.category, c.description))
  /\ idx' = idx + 1
  /\ UNCHANGED <<rules, config, pc, file_paths, models, call,
               mainvars>>

LoopDone == pc = "loop" /\ idx > Len(file_paths)

\* return operations: the list goes to the caller
ReturnOperations ==
  /\ LoopDone
  /\ pc' = "idle"
  /\ file_paths' = <<>>
  /\ idx' = 1
  /\ operations' = <<>>
  /\ models' = NoModels
  /\ UNCHANGED <<rules, config, call, mainvars>>

-----------------------------------------------------------------------------
(* The file system as the preview reads it *)

\* os.path.exists, getsize and getmtime of a source: the file is there and
\* stat answers, the file is gone, or stat raises OSError
StatOf(source) ==
  CASE source = <<"/in/b", "q.png">> -> [exists |-> FALSE, raises |-> FALSE]
    [] source = <<"/in/a", "n.xyz">> -> [exists |-> TRUE, raises |-> TRUE]
    [] source[1] = "/in/a" ->
         [exists |-> TRUE, raises |-> FALSE, size |-> 24, modified |-> "t1"]
    [] OTHER ->
         [exists |-> TRUE, raises |-> FALSE, size |-> 512, modified |-> "t2"]

-----------------------------------------------------------------------------
(* simulate_directory_tree: a path is the sequence of its components, a     *)
(* dict is the sequence of its items in insertion order                     *)

\* the path relative to the parent of start
RelpathFromParent(path, start) == path

\* os.path.relpath(path, start) of a path below start
Relpath(path, start) ==
  IF path = <<start>> THEN <<".">> ELSE Tail(path)

\* os.path.dirname of a relative path: '' is the empty sequence
Dirname(path) == SubSeq(path, 1, Len(path) - 1)

\* os.path.basename of a path given by its components
LastComponent(path) == path[Len(path)]

\* dir_path in tree
HasDir(t, dir_path) == \E i \in 1..Len(t) : t[i].dir = dir_path

\* tree[dir_path], [] when the key is absent
FilesAt(t, dir_path) ==
  IF HasDir(t, dir_path)
    THEN t[CHOOSE i \in 1..Len(t) : t[i].dir = dir_path].files
  ELSE <<>>

\* a list that forgets what it held: tree[dir_path] = [file_info]
ResetTo(t, dir_path, file_info) ==
  IF HasDir(t, dir_path)
    THEN [i \in 1..Len(t) |->
            IF t[i].dir = dir_path THEN [t[i] EXCEPT !.files = <<file_info>>]
            ELSE t[i]]
  ELSE Append(t, [dir |-> dir_path, files |-> <<file_info>>])

\* if dir_path not in tree: tree[dir_path] = []; tree[dir_path].append(info)
AppendTo(t, dir_path, file_info) ==
  IF HasDir(t, dir_path)
    THEN [i \in 1..Len(t) |->
            IF t[i].dir = dir_path
              THEN [t[i] EXCEPT !.files = Append(@, file_info)]
            ELSE t[i]]
  ELSE Append(t, [dir |-> dir_path, files |-> <<file_info>>])

\* op.get('type', 'move')
OpType(op) == IF "type" \in DOMAIN op THEN op.type ELSE "move"

PlacedTypes == {"move", "hardlink", "symlink"}

\* lines 213-226: size and modified when stat answers, size 0 otherwise
FileInfo(op) ==
  LET st == StatOf(op.source)
  IN IF st.exists /\ ~st.raises
       THEN [name |-> LastComponent(op.destination), source |-> op.source,
             size |-> st.size, modified |-> st.modified]
     ELSE [name |-> LastComponent(op.destination), source |-> op.source,
           size |-> 0]

\* the for of lines 200-228
RECURSIVE PlaceOperations(_, _, _)
PlaceOperations(t, ops, output_path) ==
  IF ops = <<>> THEN t
  ELSE PlaceOperations(
         IF OpType(Head(ops)) \in PlacedTypes
           THEN AppendTo(t,
                         Dirname(Relpath(Head(ops).destination, output_path)),
                         FileInfo(Head(ops)))
         ELSE t,
         Tail(ops), output_path)

IgnoredFolderInfo(folder_path) ==
  [name |-> LastComponent(folder_path), source |-> folder_path,
   type |-> "ignored_folder", size |-> 0]

\* the for of lines 232-245
RECURSIVE PlaceIgnored(_, _)
PlaceIgnored(t, folders) ==
  IF folders = <<>> THEN t
  ELSE PlaceIgnored(AppendTo(t, <<".">>, IgnoredFolderInfo(Head(folders))),
                    Tail(folders))

\* ignored_folders=None and an empty list are both the empty sequence
simulate_directory_tree(ops, output_path, folders) ==
  PlaceIgnored(PlaceOperations(<<>>, ops, output_path), folders)

-----------------------------------------------------------------------------
(* Inputs of simulate_directory_tree *)

MaxOps == 4

\* operations of every type, with sources present, gone and failing stat, two
\* of them with one destination, one without a type, one directly below the
\* output root, one two directories down
TreeOperations ==
  {[source |-> <<"/in/a", "x.txt">>,
    destination |-> <<"/out", "Documents", "x.txt">>, type |-> "move"],
   [source |-> <<"/in/b", "x.txt">>,
    destination |-> <<"/out", "Documents", "x.txt">>, type |-> "move"],
   [source |-> <<"/in/b", "q.png">>,
    destination |-> <<"/out", "Images", "q.png">>, type |-> "hardlink"],
   [source |-> <<"/in/a", "n.xyz">>,
    destination |-> <<"/out", "n.xyz">>, type |-> "symlink"],
   [source |-> <<"/in/a", "p.PNG">>,
    destination |-> <<"/out", "Images", "p.PNG">>, type |-> "copy"],
   [source |-> <<"/in/a", "p.PNG">>,
    destination |-> <<"/out", "Images", "Art", "p.PNG">>]}

OperationLists ==
  {<<>>} \cup UNION {[1..k -> TreeOperations] : k \in 1..MaxOps}

IgnoredFolderLists ==
  {<<>>, <<<<"/in", ".git">>>>,
   <<<<"/in", "a", "node_modules">>, <<"/in", ".git">>>>}

ArgsTree == [operations : OperationLists, ignored_folders : IgnoredFolderLists]

TreeCalls ==
  {[fn |-> "simulate_directory_tree", args |-> a, result |-> Pending] :
     a \in ArgsTree}

SimulateDirectoryTree ==
  /\ Calling("simulate_directory_tree")
  /\ call' =
       [call EXCEPT !.result =
          [tree |-> simulate_directory_tree(call.args.operations, "/out",
                                            call.args.ignored_folders)]]
  /\ UNCHANGED <<rules, config, pc, file_paths, idx, operations, models,
                 mainvars>>

-----------------------------------------------------------------------------
(* main: the two previews *)

\* file_info.get('modified')
ModifiedOf(file_info) ==
  IF "modified" \in DOMAIN file_info THEN file_info.modified ELSE "None"

\* lines 332-338 and 357-363 (the field os is the same everywhere, left out)
FileNode(file_info) ==
  [name |-> file_info.name, type |-> "file", size |-> file_info.size,
   modified |-> ModifiedOf(file_info)]

\* lines 319-338: what an entry of the key '.' becomes
RootNode(file_info) ==
  IF "type" \in DOMAIN file_info /\ file_info.type = "ignored_folder"
    THEN [name |-> file_info.name, type |-> "ignored_folder", size |-> 0,
          source |-> file_info.source]
  ELSE FileNode(file_info)

\* lines 348-372: the node of a directory
DirNode(item) ==
  [name |-> item.dir, type |-> "folder",
   children |-> [k \in 1..Len(item.files) |-> FileNode(item.files[k])]]

\* lines 316-372: the children of ui_tree
RECURSIVE UiChildren(_)
UiChildren(t) ==
  IF t = <<>> THEN <<>>
  ELSE (IF Head(t).dir = <<".">>
          THEN [k \in 1..Len(Head(t).files) |-> RootNode(Head(t).files[k])]
        ELSE <<DirNode(Head(t))>>)
       \o UiChildren(Tail(t))

\* the result main prints with --json-output
JsonPreview(t) ==
  [success |-> TRUE,
   tree |-> [name |-> "", type |-> "folder", children |-> UiChildren(t)]]

\* the order of str on the names of the model
NameOrder ==
  <<"", ".", ".git", "Documents", "Images", "Other", "n.xyz", "p.PNG", "q.png",
    "t1", "t2", "unknown", "x.txt">>

Rank(name) == CHOOSE k \in 1..Len(NameOrder) : NameOrder[k] = name

\* the first component of a key, '' for the empty key
KeyName(dir_path) == IF dir_path = <<>> THEN "" ELSE dir_path[1]

\* sorted(pairs, key=...): stable, by insertion of each pair in turn; a pair
\* is an item with its key
RECURSIVE Sorted(_)
Sorted(pairs) ==
  IF pairs = <<>> THEN <<>>
  ELSE LET rest == Sorted(SubSeq(pairs, 1, Len(pairs) - 1))
           last == pairs[Len(pairs)]
           before == SelectSeq(rest, LAMBDA x : Rank(x.key) <= Rank(last.key))
           after == SelectSeq(rest, LAMBDA x : Rank(x.key) > Rank(last.key))
       IN before \o <<last>> \o after

\* lines 252-255
HeaderLine(dir_path) ==
  IF dir_path = <<".">> THEN "Root directory:" ELSE KeyName(dir_path) \o "/:"

\* lines 259-262
EntryLine(file_info) ==
  IF "type" \in DOMAIN file_info /\ file_info.type = "ignored_folder"
    THEN "  " \o file_info.name \o "/ (ignored - will be moved as-is)"
  ELSE "  " \o file_info.name

ItemLines(item) ==
  LET files == Sorted([k \in 1..Len(item.files) |->
                         [key |-> item.files[k].name, item |-> item.files[k]]])
  IN <<HeaderLine(item.dir)>>
       \o [k \in 1..Len(files) |-> EntryLine(files[k].item)]

RECURSIVE LinesOf(_)
LinesOf(pairs) ==
  IF pairs = <<>> THEN <<>>
  ELSE ItemLines(Head(pairs).item) \o LinesOf(Tail(pairs))

\* the lines print_simulated_tree prints
print_simulated_tree(t) ==
  LinesOf(Sorted([k \in 1..Len(t) |->
                    [key |-> KeyName(t[k].dir), item |-> t[k]]]))

-----------------------------------------------------------------------------
(* main: planning by date or type, and execution.  process_files_by_date,    *)
(* process_files_by_type and execute_operations live in                      *)
(* data_processing_common, which is not among the sources; they are taken    *)
(* from the design: one move per file to outputRoot/folder/basename, and an  *)
(* executor that carries the operations out one by one, each primitive       *)
(* succeeding or failing on its own, the batch going on after a failure.     *)

\* the folder of a file: its category for 'type', its modification stamp for
\* 'date'
FolderOf(mode, file) ==
  IF mode = "type" THEN CategoryOf(file)
  ELSE IF StatOf(PathOf(file)).exists /\ ~StatOf(PathOf(file)).raises
    THEN StatOf(PathOf(file)).modified
  ELSE "unknown"

process_files_by_mode(mode, paths) ==
  [k \in 1..Len(paths) |->
     Operation(paths[k], FolderOf(mode, paths[k]), "")]

\* one primitive: it fails when the environment makes it fail or the source
\* is not there; a move takes the source away, a link leaves it
ExecuteOne(state, op, fails) ==
  IF fails \/ op.source \notin state.fs THEN state
  ELSE [fs |-> (IF OpType(op) = "move" THEN state.fs \ {op.source}
                ELSE state.fs) \cup {op.destination},
        performed |-> Append(state.performed, op)]

RECURSIVE ExecuteFrom(_, _, _, _)
ExecuteFrom(state, ops, k, failing) ==
  IF k > Len(ops) THEN state
  ELSE ExecuteFrom(ExecuteOne(state, ops[k], k \in failing), ops, k + 1,
                   failing)

\* the file system and the operations carried out after the call
execute_operations(files, ops, failing) ==
  ExecuteFrom([fs |-> files, performed |-> <<>>], ops, 1, failing)

-----------------------------------------------------------------------------
(* Inputs of main *)

Modes == {"ai_content", "date", "type"}

\* --dry-run: its default, the default in other letters, and another word
DryRunValues == {"true", "True", "false"}

ArgSets == [mode : Modes, dry_run : DryRunValues, json_output : BOOLEAN]

\* what collect_file_paths finds: two files of one name, and one that is
\* gone before the run reads it
InputFiles ==
  {File("/in/a", "x", ".txt", TRUE),
   File("/in/b", "x", ".txt", FALSE),
   File("/in/b", "q", ".png", FALSE)}

Collected == {b \in Batches : \A k \in DOMAIN b : b[k] \in InputFiles}

CollectedIgnored == {<<>>, <<<<"/in", ".git">>>>}

\* what the output directory may hold before the run
OldOutputs == {{}, {<<"/out", "Documents", "old.txt">>}}

\* the primitives that fail in a run: none, or one
FailureSets(ops) == {{}} \cup {{k} : k \in 1..Len(ops)}

-----------------------------------------------------------------------------
(* Actions of main *)

\* lines 275-283: the input path does not exist
MainExit ==
  /\ mpc = "start" /\ Idle
  /\ \E a \in ArgSets : args' = a
  /\ mpc' = "done"
  /\ UNCHANGED <<rules, config, pc, file_paths, idx, operations, models, call,
                 ignored_folders, tree, trace, fs, performed>>

\* lines 275-290
MainCollect ==
  /\ mpc = "start" /\ Idle
  /\ \E a \in ArgSets, batch \in Collected, folders \in CollectedIgnored,
        old \in OldOutputs :
       /\ args' = a
       /\ file_paths' = batch
       /\ ignored_folders' = folders
       /\ fs' = fs \cup old
  /\ mpc' = "collected"
  /\ UNCHANGED <<rules, config, pc, idx, operations, models, call, tree, trace,
                 performed>>

\* lines 295-296 and 389-392, up to the for of process_files_with_ai
MainPlanWithAI ==
  /\ mpc = "collected"
  /\ args.mode = "ai_content"
  /\ \E loaded \in BOOLEAN : models' = [text |-> loaded, image |-> loaded]
  /\ idx' = 1
  /\ operations' = <<>>
  /\ pc' = "loop"
  /\ mpc' = "plan"
  /\ UNCHANGED <<rules, config, file_paths, call, args, ignored_folders, tree,
                 trace, fs, performed>>

\* lines 297-300 and 394-400
MainPlanByMode ==
  /\ mpc = "collected"
  /\ args.mode \in {"date", "type"}
  /\ operations' = process_files_by_mode(args.mode, file_paths)
  /\ mpc' = "planned"
  /\ UNCHANGED <<rules, config, pc, file_paths, idx, models, call, args,
                 ignored_folders, tree, trace, fs, performed>>

\* operations is assigned
Planned == (mpc = "plan" /\ LoopDone) \/ mpc = "planned"

\* lines 303-382
MainPreviewJson ==
  /\ Planned
  /\ args.json_output
  /\ LET t == simulate_directory_tree(operations, OUTPUT_PATH, ignored_folders)
     IN /\ tree' = t
        /\ trace' = Append(trace, [event |-> "preview", operations |-> operations,
                                   shown |-> JsonPreview(t)])
  /\ pc' = "idle"
  /\ mpc' = "done"
  /\ UNCHANGED <<rules, config, file_paths, idx, operations, models, call, args,
                 ignored_folders, fs, performed>>

\* lines 402-405
MainPreviewText ==
  /\ Planned
  /\ ~args.json_output
  /\ LET t == simulate_directory_tree(operations, OUTPUT_PATH, <<>>)
     IN /\ tree' = t
        /\ trace' = Append(trace, [event |-> "preview", operations |-> operations,
                                   shown |-> print_simulated_tree(t)])
  /\ pc' = "idle"
  /\ mpc' = "previewed"
  /\ UNCHANGED <<rules, config, file_paths, idx, operations, models, call, args,
                 ignored_folders, fs, performed>>

\* the comparison without lower()
dry_run_as_typed == args.dry_run = "true"

\* line 385
dry_run == Lower(args.dry_run) = "true"

\* lines 407-410
MainExecute ==
  /\ mpc = "previewed"
  /\ ~dry_run
  /\ \E failing \in FailureSets(operations) :
       LET done == execute_operations(fs, operations, failing)
       IN /\ fs' = done.fs
          /\ performed' = done.performed
  /\ trace' = Append(trace, [event |-> "execute", operations |-> operations,
                             before |-> fs])
  /\ mpc' = "done"
  /\ UNCHANGED <<rules, config, pc, file_paths, idx, operations, models, call,
                 args, ignored_folders, tree>>

\* lines 411-412
MainDryRun ==
  /\ mpc = "previewed"
  /\ dry_run
  /\ mpc' = "done"
  /\ UNCHANGED <<rules, config, pc, file_paths, idx, operations, models, call,
                 args, ignored_folders, tree, trace, fs, performed>>

-----------------------------------------------------------------------------
(* Specifications *)

NoArgs == [none |-> TRUE]

\* the files of the input directory that are there
InitialFiles ==
  {<<"/in/a", "x.txt">>, <<"/in/b", "x.txt">>, <<"/in/a", "p.PNG">>,
   <<"/in/a", "n.xyz">>}

\* main has not started
MainNotStarted ==
  /\ mpc = "start"
  /\ args = NoArgs
  /\ ignored_folders = <<>>
  /\ tree = <<>>
  /\ trace = <<>>
  /\ fs = InitialFiles
  /\ performed = <<>>

Init ==
  /\ rules = DefaultRules
  /\ config = NoConfig
  /\ pc = "idle"
  /\ file_paths = <<>>
  /\ idx = 1
  /\ operations = <<>>
  /\ models = NoModels
  /\ call = NoCall
  /\ MainNotStarted

Next ==
  \/ AddRule
  \/ RemoveRule
  \/ UpdatePriority
  \/ ExportConfig
  \/ ImportConfig

Spec == Init /\ [][Next]_vars

\* a table built by add_rule and remove_rule, then one observed update_rule
NextUpdate ==
  \/ AddRule
  \/ RemoveRule
  \/ UpdateRule

SpecUpdate == Init /\ [][NextUpdate]_vars

NextAI ==
  \/ ParseAIResponse
  \/ CategorizeWithAI
  \/ CategorizeByContent

NextPlan ==
  \/ UpdateFields
  \/ StartBatch
  \/ ProcessFile
  \/ ReturnOperations

SpecPlan == Init /\ [][NextPlan]_vars

\* a call of the adapter, its arguments drawn from the input sets
InitAI ==
  /\ rules = DefaultRules
  /\ config = NoConfig
  /\ pc = "idle"
  /\ file_paths = <<>>
  /\ idx = 1
  /\ operations = <<>>
  /\ models = NoModels
  /\ call \in Calls
  /\ MainNotStarted

SpecAI == InitAI /\ [][NextAI]_vars

\* a call of simulate_directory_tree, its arguments drawn from the input sets
InitTree ==
  /\ rules = DefaultRules
  /\ config = NoConfig
  /\ pc = "idle"
  /\ file_paths = <<>>
  /\ idx = 1
  /\ operations = <<>>
  /\ models = NoModels
  /\ call \in TreeCalls
  /\ MainNotStarted

NextTree == SimulateDirectoryTree

\* one run of main on the seed table
NextMain ==
  \/ MainExit
  \/ MainCollect
  \/ MainPlanWithAI
  \/ ProcessFile
  \/ MainPlanByMode
  \/ MainPreviewJson
  \/ MainPreviewText
  \/ MainExecute
  \/ MainDryRun

SpecMain == Init /\ [][NextMain]_vars

SpecTree == InitTree /\ [][NextTree]_vars

-----------------------------------------------------------------------------
(* Claims about the rule table *)

\* the positions of the rules whose extension list holds e
Holding(e) == {i \in Indices(rules) : e \in rules[i].extensions}

\* the positions, among those holding e, of the greatest priority
Top(e) ==
  {i \in Holding(e) : \A j \in Holding(e) : rules[j].priority <= rules[i].priority}

\* C1: whenever two rules of the table hold extension e with different
\* priorities, get_rule_for_extension(e) returns a rule of the greatest
\* priority among the rules holding e (e a normalised, lower-case extension).
C1_HighestPriorityWins ==
  \A e \in LowerExts :
    (\E i, j \in Holding(e) : rules[i].priority > rules[j].priority)
      => \E i \in Top(e) : get_rule_for_extension(rules, e) = rules[i]

\* C2: when several rules holding e share the greatest priority among the
\* rules holding e, get_rule_for_extension(e) returns the one of them that was
\* inserted first (e a normalised, lower-case extension).
C2_FirstInsertedWinsTies ==
  \A e \in LowerExts :
    Cardinality(Top(e)) >= 2
      => \E i \in Top(e) :
           /\ get_rule_for_extension(rules, e) = rules[i]
           /\ \A j \in Top(e) : rules[i].seq <= rules[j].seq

\* what the claims compare of a resolution
Resolution(r) ==
  IF r = NoRule THEN <<"no rule">>
  ELSE <<r.category, r.description, r.requires_ai_analysis, r.ai_model_type>>

\* C8: for every table T that export_config accepts, every extension resolves
\* on import_config(export_config(T)) to the same category, description,
\* requires_ai_analysis and ai_model_type as on T.
C8_RoundTripResolves ==
  ~ExportRaises(rules) =>
    \A e \in Exts :
      Resolution(get_rule_for_extension(import_config(export_config(rules)), e))
        = Resolution(get_rule_for_extension(rules, e))

\* C9: an extension held by exactly one rule of the table resolves to that
\* rule in every upper/lower-case spelling.
C9_CaseInsensitive ==
  \A e \in Exts :
    Cardinality(Holding(e)) = 1
      => \A v \in CaseVariants(e) :
           \A i \in Holding(e) : get_rule_for_extension(rules, v) = rules[i]

\* the first position of a table whose rule holds one of the extensions; 0
\* when there is none
FirstMatch(s, extensions) ==
  LET hits == {i \in Indices(s) : Matches(s[i], extensions)}
  IN IF hits = {} THEN 0 ELSE CHOOSE i \in hits : \A j \in hits : i <= j

-----------------------------------------------------------------------------
(* Claims about the categorization adapter *)

Called(fn) == call # NoCall /\ call.fn = fn /\ call.result # Pending

\* the AI capability is unavailable, or the invocation raised
InvocationFailed(call_args) ==
  \/ ~call_args.torch_available
  \/ PromptRaises(call_args.content)
  \/ call_args.inference.raises

\* C3: when the AI capability is unavailable or the invocation fails,
\* categorize_by_content returns extension_category as the category (never
\* "EXTENSION_BASED", and "Other" only if extension_category is "Other") and
\* keeps the adapter's description.
C3_FallbackKeepsRuleCategory ==
  (Called("categorize_by_content") /\ InvocationFailed(call.args)) =>
    /\ call.result.category = call.args.extension_category
    /\ call.result.category # <<"EXTENSION_BASED">>
    /\ call.result.category = <<"Other">>
         => call.args.extension_category = <<"Other">>
    /\ call.result.description =
         categorize_with_ai(call.args.content, call.args.ai_description,
                            call.args.torch_available,
                            call.args.inference).description

C11_ConfidenceInRange ==
  (call # NoCall /\ call.result # Pending) =>
    call.result.confidence >= 0 /\ call.result.confidence <= 10

\* the trimmed lines of a response that begin with a prefix
LinesWith(ai_response, prefix) ==
  SelectSeq([i \in 1..Len(Split(Strip(ai_response), NL)) |->
               Strip(Split(Strip(ai_response), NL)[i])],
            LAMBDA line : StartsWith(line, prefix))

\* the remainder after the prefix, trimmed, of the last line that begins with
\* it; none when no line does
LastRemainder(ai_response, prefix) ==
  LET ls == LinesWith(ai_response, prefix)
  IN IF ls = <<>> THEN [none |-> TRUE]
     ELSE [none |-> FALSE, text |-> Strip(Tail(ls[Len(ls)]))]

\* C12: for every response text, parse_ai_response sets each field from the
\* last line that begins with its prefix: category and reason are the
\* remainder of the line after the prefix, trimmed; tags are the trimmed,
\* non-empty comma-separated segments of the remainder; confidence is the
\* number the remainder parses to, or 0.7; a field no line sets keeps its
\* default ("Other", "AI analysis provided", [], 0.7).
C12_FieldsFromPrefixedLines ==
  (Called("parse_ai_response") /\ IsText(call.args.ai_response)) =>
    LET category == LastRemainder(call.args.ai_response, "CATEGORY:")
        reason == LastRemainder(call.args.ai_response, "REASON:")
        tags == LastRemainder(call.args.ai_response, "TAGS:")
        confidence == LastRemainder(call.args.ai_response, "CONFIDENCE:")
    IN /\ call.result.category =
            IF category.none THEN <<"Other">> ELSE category.text
       /\ call.result.description =
            IF reason.none THEN <<"AI analysis provided">> ELSE reason.text
       /\ call.result.tags = IF tags.none THEN <<>> ELSE TagsOf(tags.text)
       /\ call.result.confidence =
            IF confidence.none \/ FloatRaises(confidence.text)
              THEN CONF_DEFAULT
            ELSE FloatOf(confidence.text[1])

-----------------------------------------------------------------------------
(* Claims about process_files_with_ai *)

\* the file of the batch an operation was made for
FileOf(op) ==
  CHOOSE f \in {file_paths[i] : i \in 1..Len(file_paths)} : PathOf(f) = op.source

\* the rule the table resolves the file of an operation to
RuleOf(op) == get_rule_for_extension(rules, Lower(Extension(FileOf(op))))

Emitted == {operations[i] : i \in 1..Len(operations)}

\* C5: the category of every emitted operation is the category of the rule
\* resolved for the lower-cased extension of its file, or "Other" with the
\* description "Other file" when no rule matches, whatever the description
\* step returned or raised.
C5_CategoryFromRule ==
  pc = "loop" =>
    \A op \in Emitted :
      IF RuleOf(op) = NoRule
        THEN op.category = "Other" /\ op.description = "Other file"
      ELSE op.category = RuleOf(op).category.value

\* C5's case: the description step returned a text that names a category, and
\* the operation carries it as its description only
C5_Witness ==
  /\ pc = "loop"
  /\ \E op \in Emitted :
       /\ op.description = "Code"
       /\ RuleOf(op) # NoRule
       /\ op.category = "Images"

\* C6: the loop ends with exactly one operation for every file of the batch,
\* in the order of the batch.
C6_OneOperationPerFile ==
  LoopDone =>
    /\ Len(operations) = Len(file_paths)
    /\ \A i \in 1..Len(file_paths) : operations[i].source = PathOf(file_paths[i])

\* C7: no two operations of a batch have the same destination (the planner
\* has no way to report a conflict, so a shared destination is unreported).
C7_DistinctDestinations ==
  pc = "loop" =>
    \A i, j \in 1..Len(operations) :
      i # j => operations[i].destination # operations[j].destination

\* the content of the file cannot be read or analysed: a text that cannot be
\* read, an image that cannot be opened, an image with no image model
Unanalysable(op) ==
  /\ RuleOf(op) # NoRule
  /\ RuleOf(op).requires_ai_analysis
  /\ \/ RuleOf(op).ai_model_type = "text" /\ ~FileOf(op).readable
     \/ RuleOf(op).ai_model_type = "image"
          /\ (~FileOf(op).readable \/ ~models.image)

\* C10: the operation of a file whose rule requires AI analysis and whose
\* content cannot be read or analysed carries the current description and the
\* category of the resolved rule.
C10_UnreadableKeepsRuleDescription ==
  pc = "loop" =>
    \A op \in Emitted :
      Unanalysable(op) =>
        /\ op.description = RuleOf(op).description
        /\ op.category = RuleOf(op).category.value

\* no two files of the batch share (category, basename)
NoSharedName ==
  \A i, j \in 1..Len(file_paths) :
    i # j =>
      \/ CategoryOf(file_paths[i]) # CategoryOf(file_paths[j])
      \/ Basename(file_paths[i]) # Basename(file_paths[j])

\* C17: for a batch in which no two files share (category, basename), every
\* operation process_files_with_ai produces is a move to
\* outputRoot/category/basename(source), and the destinations are pairwise
\* distinct.
C17_DestinationIsCategoryAndBasename ==
  (pc = "loop" /\ NoSharedName) =>
    /\ \A op \in Emitted :
         /\ op.type = "move"
         /\ op.destination =
              <<OUTPUT_PATH, CategoryOf(FileOf(op)), Basename(FileOf(op))>>
    /\ \A i, j \in 1..Len(operations) :
         i # j => operations[i].destination # operations[j].destination

\* C17's case: a batch of two files of one category and different names has
\* been planned to the end
C17_Witness ==
  /\ LoopDone
  /\ NoSharedName
  /\ Len(operations) = 2
  /\ operations[1].category = operations[2].category
  /\ operations[1].destination # operations[2].destination

-----------------------------------------------------------------------------
(* Claims about simulate_directory_tree *)

\* the operations of a list that the tree is to hold under a key
PlacedUnder(ops, output_path, dir_path) ==
  SelectSeq(ops,
            LAMBDA op :
              /\ OpType(op) \in PlacedTypes
              /\ Dirname(Relpath(op.destination, output_path)) = dir_path)

\* the entries of a key that stand for operations
FileEntries(t, dir_path) ==
  SelectSeq(FilesAt(t, dir_path), LAMBDA info : "type" \notin DOMAIN info)

\* the size stat reports for a source, 0 when it is gone or stat raises
SizeOf(source) ==
  IF StatOf(source).exists /\ ~StatOf(source).raises THEN StatOf(source).size
  ELSE 0

\* the keys of a tree and the keys its operations call for
KeysOf(t, ops, output_path) ==
  {t[i].dir : i \in 1..Len(t)}
    \cup {Dirname(Relpath(ops[i].destination, output_path)) : i \in 1..Len(ops)}

\* C16: simulate_directory_tree returns a tree in which every operation of
\* type move, hardlink or symlink stands exactly once, in the order of the
\* operations, under the key that is the directory of its destination
\* relative to the output root, with the basename of the destination as name
\* and the size of the source as size, 0 when the source is missing or stat
\* fails on it; no key holds any other file entry.
C16_TreePlacesEveryOperation ==
  Called("simulate_directory_tree") =>
    /\ \A i, j \in 1..Len(call.result.tree) :
         call.result.tree[i].dir = call.result.tree[j].dir => i = j
    /\ \A d \in KeysOf(call.result.tree, call.args.operations, "/out") :
         LET entries == FileEntries(call.result.tree, d)
             ops == PlacedUnder(call.args.operations, "/out", d)
         IN /\ Len(entries) = Len(ops)
            /\ \A k \in 1..Len(ops) :
                 /\ entries[k].name = LastComponent(ops[k].destination)
                 /\ entries[k].source = ops[k].source
                 /\ entries[k].size = SizeOf(ops[k].source)

\* C16's case: two operations with one destination, a source that is gone
\* and an operation of another type have been simulated
C16_Witness ==
  /\ Called("simulate_directory_tree")
  /\ Len(FileEntries(call.result.tree, <<"Documents">>)) = 2
  /\ \E i \in 1..Len(call.args.operations) :
       OpType(call.args.operations[i]) = "copy"
  /\ \E k \in 1..Len(FileEntries(call.result.tree, <<"Images">>)) :
       /\ FileEntries(call.result.tree, <<"Images">>)[k].size = 0
       /\ ~StatOf(FileEntries(call.result.tree, <<"Images">>)[k].source).exists

-----------------------------------------------------------------------------
(* Claims about main *)

Previews == {k \in 1..Len(trace) : trace[k].event = "preview"}

Executions == {k \in 1..Len(trace) : trace[k].event = "execute"}

\* the JSON preview holds the folder as a child of the root, marked
\* ignored_folder
JsonShowsFolder(shown, folder) ==
  \E k \in 1..Len(shown.tree.children) :
    /\ shown.tree.children[k].type = "ignored_folder"
    /\ shown.tree.children[k].name = LastComponent(folder)
    /\ shown.tree.children[k].source = folder

\* the printed structure holds the folder as an entry of the root directory
TextShowsFolder(shown, folder) ==
  \E h, k \in 1..Len(shown) :
    /\ h < k
    /\ shown[h] = "Root directory:"
    /\ shown[k] =
         "  " \o LastComponent(folder) \o "/ (ignored - will be moved as-is)"

\* C13: every preview main produces, the JSON preview and the printed
\* 'Proposed directory structure' alike, shows each ignored folder as a
\* whole-folder entry marked ignored_folder under the root directory.
C13_IgnoredFoldersPreviewed ==
  \A p \in Previews :
    \A i \in 1..Len(ignored_folders) :
      IF args.json_output
        THEN JsonShowsFolder(trace[p].shown, ignored_folders[i])
      ELSE TextShowsFolder(trace[p].shown, ignored_folders[i])

\* the (directory, filename) pairs of the file entries of a tree
TreePairs(t) ==
  UNION {{<<t[i].dir, FileEntries(t, t[i].dir)[k].name>> :
            k \in 1..Len(FileEntries(t, t[i].dir))} : i \in 1..Len(t)}

\* the (directory, filename) pairs of the files below the output root
PairsUnder(files) ==
  {<<SubSeq(path, 2, Len(path) - 1), path[Len(path)]>> :
     path \in {q \in files : q[1] = OUTPUT_PATH}}

TrueSpellings == {"true", "True", "TRUE"}

\* C18: execute_operations is called at most once in a run of main, only
\* after a preview of the very list it is handed, never with --json-output,
\* and never with --dry-run at its default or given as 'true' in any letter
\* case.
C18_ExecuteOnlyAfterPreview ==
  \A e \in Executions :
    /\ \E p \in Previews : p < e /\ trace[p].operations = trace[e].operations
    /\ \A other \in Executions : other = e
    /\ ~args.json_output
    /\ args.dry_run \notin TrueSpellings

\* C18's case: a run with --dry-run false and no --json-output has previewed
\* its operations and executed them
C18_Witness ==
  /\ mpc = "done"
  /\ args # NoArgs
  /\ args.dry_run = "false"
  /\ operations # <<>>
  /\ Len(trace) = 2
  /\ trace[1].event = "preview"
  /\ trace[2].event = "execute"

====
